---- MODULE Spec2Model ----
(***************************************************************************)
(* Model of the row-selection hook useGridSelection                        *)
(* (packages/grid/_modules_/grid/hooks/features/selection).                *)
(*                                                                         *)
(* The state is the grid's selection slice, the lastRowToggled ref, the    *)
(* rows lookup and visible ordering the hook reads, and the props of the   *)
(* current render.  Every callback of the hook is one action; a commit of  *)
(* new rows or props is one action that runs the hook's effects in         *)
(* declaration order.                                                      *)
(*                                                                         *)
(* A behaviour is one step of the hook taken from a state of a running     *)
(* grid: Init ranges over the states the grid can be in (any props, any    *)
(* rows and visible ordering, any array of distinct ids as the selection,  *)
(* any anchor), and the variable last records the operation of the step,   *)
(* its arguments and the state it started from.                            *)
(***************************************************************************)
EXTENDS Integers, Sequences, FiniteSets, TLC

\* Bound of the model: the longest array of ids a caller passes.
MaxModelLen == 2

\* A GridRowId is a number or a string.  The ids of the model are the
\* numbers 1 and 2 and the string "r1": <<"number", n>> is the number n and
\* <<"string", n>> the string "r<n>", which is no canonical array index.
NumberIds == {<<"number", 1>>, <<"number", 2>>}
StringIds == {<<"string", 1>>}
GridRowId == NumberIds \cup StringIds

Undefined == <<"undefined", 0>>
Null == <<"null", 0>>

VARIABLES
  selection,                 \* state.selection : GridRowId[]
  lastRowToggled,            \* lastRowToggled.current
  rowsLookup,                \* ids that have an entry in the rows lookup
  visibleRowIds,             \* visibleSortedGridRowIdsSelector(state)
  checkboxSelection,         \* props.checkboxSelection
  disableMultipleSelection,  \* props.disableMultipleSelection
  disableSelectionOnClick,   \* props.disableSelectionOnClick
  isRowSelectable,           \* props.isRowSelectable
  last                       \* the step taken: operation, arguments, state before

vars == <<selection, lastRowToggled, rowsLookup, visibleRowIds,
          checkboxSelection, disableMultipleSelection, disableSelectionOnClick,
          isRowSelectable, last>>

----------------------------------------------------------------------------
\* Array and object primitives of the language, as the code uses them.

Range(s) == {s[i] : i \in DOMAIN s}

Min(a, b) == IF a < b THEN a ELSE b
Max(a, b) == IF a < b THEN b ELSE a

\* Array.prototype.includes
includes(s, id) == \E i \in DOMAIN s : s[i] = id

\* Array.prototype.indexOf / findIndex with an equality test: 0-based, -1 if absent
indexOf(s, id) ==
  IF includes(s, id)
  THEN (CHOOSE i \in DOMAIN s : s[i] = id /\ \A j \in DOMAIN s : s[j] = id => i <= j) - 1
  ELSE -1

\* s[i] with a 0-based index: undefined outside the array
at(s, i) == IF i >= 0 /\ i < Len(s) THEN s[i + 1] ELSE Undefined

\* Array.prototype.slice(start, end): negative indices count from the end
sliceIndex(s, i) == IF i < 0 THEN Max(Len(s) + i, 0) ELSE Min(i, Len(s))

slice(s, start, end) ==
  LET from == sliceIndex(s, start)
      to == sliceIndex(s, end)
  IN IF from < to THEN SubSeq(s, from + 1, to) ELSE <<>>

\* Array.prototype.filter
filter(s, keep(_)) == SelectSeq(s, keep)

\* An object used as a lookup is modelled by its keys in insertion order.
\* lookup[id] = id : an existing key keeps its place, a new key goes last.
lookupAssign(lookup, id) == IF includes(lookup, id) THEN lookup ELSE Append(lookup, id)

\* delete lookup[id]
lookupDelete(lookup, id) == filter(lookup, LAMBDA k : k # id)

RECURSIVE ascending(_)
ascending(S) ==
  IF S = {} THEN <<>>
  ELSE LET m == CHOOSE x \in S : \A y \in S : x[2] <= y[2]
       IN <<m>> \o ascending(S \ {m})

\* Object.values(lookup): integer-like keys first, in ascending numeric order,
\* then the other keys in insertion order.
ObjectValues(lookup) ==
  ascending(Range(lookup) \cap NumberIds) \o filter(lookup, LAMBDA k : k \notin NumberIds)

RECURSIVE reduceToLookup(_, _)
reduceToLookup(s, lookup) ==
  IF s = <<>> THEN lookup ELSE reduceToLookup(Tail(s), lookupAssign(lookup, Head(s)))

\* selectedIdsLookupSelector: the mapping from each selected id to itself
selectedIdsLookupSelector(sel) == reduceToLookup(sel, <<>>)

----------------------------------------------------------------------------
\* Values the props and the inputs are drawn from.

RECURSIVE SeqsUpTo(_, _)
SeqsUpTo(S, n) ==
  IF n = 0 THEN {<<>>}
  ELSE LET shorter == SeqsUpTo(S, n - 1)
       IN shorter \cup {Append(s, x) : s \in shorter, x \in S}

\* Arrays of row ids a caller may pass (any ids, repetitions allowed).
Models == SeqsUpTo(GridRowId, MaxModelLen)

\* Orderings of a subset of the rows: the visible rows after filter and sort.
AllOrderings ==
  {s \in SeqsUpTo(GridRowId, Cardinality(GridRowId)) : \A i, j \in DOMAIN s : s[i] = s[j] => i = j}

Orderings(S) == {s \in AllOrderings : Range(s) \subseteq S}

\* props.selectionModel: undefined, one id, or an array of ids.
UndefinedProp == [kind |-> "undefined", id |-> Null, ids |-> <<>>]

SelectionModelProps ==
  {UndefinedProp}
    \cup {[kind |-> "id", id |-> id, ids |-> <<>>] : id \in GridRowId}
    \cup {[kind |-> "array", id |-> Null, ids |-> m] : m \in Models}

\* props.isRowSelectable: undefined, or a predicate given by the ids it accepts.
RowSelectableProps ==
  {[defined |-> FALSE, accepts |-> {}]}
    \cup {[defined |-> TRUE, accepts |-> S] : S \in SUBSET GridRowId}

\* The mutable state of the hook that the callbacks read and write.
HookState(sel, toggled) == [selection |-> sel, lastRowToggled |-> toggled]

current == HookState(selection, lastRowToggled)

----------------------------------------------------------------------------
\* The hook, in source order.

\* The memoized prop: undefined as it is, an array as it is, an id wrapped in
\* an array.
propSelectionModel(prop) ==
  IF prop.kind = "undefined" THEN [defined |-> FALSE, model |-> <<>>]
  ELSE IF prop.kind = "array" THEN [defined |-> TRUE, model |-> prop.ids]
  ELSE [defined |-> TRUE, model |-> <<prop.id>>]

canHaveMultipleSelection == ~disableMultipleSelection \/ checkboxSelection

\* apiRef.current.getRow(id) is truthy exactly for the ids of the rows lookup
getRow(id) == id \in rowsLookup

\* isRowSelectable && !isRowSelectable(getRowParams(id))
rejects(pred, id) == pred.defined /\ id \notin pred.accepts

\* isSelectionValid with the limit off by one
isSelectionValidOffByOne(newSelection) == Len(newSelection) < 3 \/ canHaveMultipleSelection

isSelectionValid(newSelection) == Len(newSelection) < 2 \/ canHaveMultipleSelection

setSelectionModel(st, model) == [st EXCEPT !.selection = model]

isRowSelected(st, id) == includes(st.selection, id)

\* selectRow without the push of the selected id
selectRowWithoutPush(st, id, isSelected, resetSelection) ==
  IF rejects(isRowSelectable, id) THEN st
  ELSE LET toggled == [st EXCEPT !.lastRowToggled = id]
       IN IF resetSelection
          THEN setSelectionModel(toggled, IF isSelected THEN <<id>> ELSE <<>>)
          ELSE LET newSelection == filter(st.selection, LAMBDA el : el # id)
               IN IF isSelectionValid(newSelection)
                  THEN setSelectionModel(toggled, newSelection)
                  ELSE toggled

\* selectRow that pushes the id without removing it first
selectRowWithoutRemoval(st, id, isSelected, resetSelection) ==
  IF rejects(isRowSelectable, id) THEN st
  ELSE LET toggled == [st EXCEPT !.lastRowToggled = id]
       IN IF resetSelection
          THEN setSelectionModel(toggled, IF isSelected THEN <<id>> ELSE <<>>)
          ELSE LET removed == filter(st.selection, LAMBDA el : el # id)
                   newSelection == IF isSelected THEN Append(st.selection, id) ELSE removed
               IN IF isSelectionValid(newSelection)
                  THEN setSelectionModel(toggled, newSelection)
                  ELSE toggled

\* selectRow without the check of the predicate
selectRowWithoutPredicate(st, id, isSelected, resetSelection) ==
  LET toggled == [st EXCEPT !.lastRowToggled = id]
  IN IF resetSelection
     THEN setSelectionModel(toggled, IF isSelected THEN <<id>> ELSE <<>>)
     ELSE LET removed == filter(st.selection, LAMBDA el : el # id)
              newSelection == IF isSelected THEN Append(removed, id) ELSE removed
          IN IF isSelectionValid(newSelection)
             THEN setSelectionModel(toggled, newSelection)
             ELSE toggled

selectRow(st, id, isSelected, resetSelection) ==
  IF rejects(isRowSelectable, id) THEN st
  ELSE LET toggled == [st EXCEPT !.lastRowToggled = id]
       IN IF resetSelection
          THEN setSelectionModel(toggled, IF isSelected THEN <<id>> ELSE <<>>)
          ELSE LET removed == filter(st.selection, LAMBDA el : el # id)
                   newSelection == IF isSelected THEN Append(removed, id) ELSE removed
               IN IF isSelectionValid(newSelection)
                  THEN setSelectionModel(toggled, newSelection)
                  ELSE toggled

RECURSIVE forEachSelectable(_, _, _)
forEachSelectable(selectableIds, isSelected, lookup) ==
  IF selectableIds = <<>> THEN lookup
  ELSE forEachSelectable(Tail(selectableIds), isSelected,
         IF isSelected THEN lookupAssign(lookup, Head(selectableIds))
         ELSE lookupDelete(lookup, Head(selectableIds)))

\* selectRows without the filter by the predicate
selectRowsWithoutFilter(st, ids, isSelected, resetSelection) ==
  LET newSelection ==
        IF resetSelection
        THEN IF isSelected THEN ids ELSE <<>>
        ELSE ObjectValues(forEachSelectable(ids, isSelected,
                                            selectedIdsLookupSelector(st.selection)))
  IN IF isSelectionValid(newSelection) THEN setSelectionModel(st, newSelection) ELSE st

selectRows(st, ids, isSelected, resetSelection) ==
  LET selectableIds == filter(ids, LAMBDA id : ~rejects(isRowSelectable, id))
      newSelection ==
        IF resetSelection
        THEN IF isSelected THEN selectableIds ELSE <<>>
        ELSE ObjectValues(forEachSelectable(selectableIds, isSelected,
                                            selectedIdsLookupSelector(st.selection)))
  IN IF isSelectionValid(newSelection) THEN setSelectionModel(st, newSelection) ELSE st

\* rowsBetweenStartAndEnd without the swap of the two indices
rowsBetweenStartAndEndUnordered(startId, endId) ==
  slice(visibleRowIds, indexOf(visibleRowIds, startId), indexOf(visibleRowIds, endId) + 1)

\* rowsBetweenStartAndEnd with the end of the slice excluded
rowsBetweenStartAndEndExclusive(startId, endId) ==
  LET startIndex == indexOf(visibleRowIds, startId)
      endIndex == indexOf(visibleRowIds, endId)
      start == IF startIndex > endIndex THEN endIndex ELSE startIndex
      end == IF startIndex > endIndex THEN startIndex ELSE endIndex
  IN slice(visibleRowIds, start, end)

rowsBetweenStartAndEnd(startId, endId) ==
  LET startIndex == indexOf(visibleRowIds, startId)
      endIndex == indexOf(visibleRowIds, endId)
      start == IF startIndex > endIndex THEN endIndex ELSE startIndex
      end == IF startIndex > endIndex THEN startIndex ELSE endIndex
  IN slice(visibleRowIds, start, end + 1)

\* selectRowRange without the check of the two ids against the rows
selectRowRangeWithoutGuard(st, startId, endId, isSelected, resetSelection) ==
  selectRows(st, rowsBetweenStartAndEnd(startId, endId), isSelected, resetSelection)

selectRowRange(st, startId, endId, isSelected, resetSelection) ==
  IF ~getRow(startId) \/ ~getRow(endId) THEN st
  ELSE selectRows(st, rowsBetweenStartAndEnd(startId, endId), isSelected, resetSelection)

\* expandRowRangeSelection that starts the range at the clicked row
expandRowRangeSelectionFromTarget(st, id) ==
  selectRowRange([st EXCEPT !.lastRowToggled = id], id, id, ~isRowSelected(st, id), FALSE)

\* the range of expandRowRangeSelection without the contraction
expandedRangeWithoutContraction(st, id) ==
  [startId |-> IF st.lastRowToggled # Null THEN st.lastRowToggled ELSE id,
   endId |-> id,
   isSelected |-> ~isRowSelected(st, id)]

\* The range expandRowRangeSelection(id) hands to selectRowRange.
expandedRange(st, id) ==
  LET startId == IF st.lastRowToggled # Null THEN st.lastRowToggled ELSE id
      isSelected == isRowSelected(st, id)
      startIndex == indexOf(visibleRowIds, startId)
      endIndex == indexOf(visibleRowIds, id)
      endId == IF isSelected
               THEN IF startIndex > endIndex
                    THEN at(visibleRowIds, endIndex + 1)
                    ELSE at(visibleRowIds, endIndex - 1)
               ELSE id
  IN [startId |-> startId, endId |-> endId, isSelected |-> ~isSelected]

expandRowRangeSelection(st, id) ==
  LET range == expandedRange(st, id)
  IN selectRowRange([st EXCEPT !.lastRowToggled = id], range.startId, range.endId,
                    range.isSelected, FALSE)

\* handleRowClick that never resets the selection
handleRowClickWithoutReset(st, id, shiftKey, ctrlKey, metaKey) ==
  IF disableSelectionOnClick THEN st
  ELSE IF shiftKey /\ (canHaveMultipleSelection \/ checkboxSelection)
       THEN expandRowRangeSelection(st, id)
       ELSE selectRow(st, id,
              IF metaKey \/ ctrlKey \/ checkboxSelection THEN ~isRowSelected(st, id) ELSE TRUE,
              FALSE)

\* handleRowClick that selects the row whatever its state
handleRowClickAlwaysSelecting(st, id, shiftKey, ctrlKey, metaKey) ==
  IF disableSelectionOnClick THEN st
  ELSE LET hasCtrlKey == metaKey \/ ctrlKey
       IN IF shiftKey /\ (canHaveMultipleSelection \/ checkboxSelection)
          THEN expandRowRangeSelection(st, id)
          ELSE LET isMultipleSelectionDisabled == ~checkboxSelection /\ ~hasCtrlKey
                   resetSelection == ~canHaveMultipleSelection \/ isMultipleSelectionDisabled
               IN selectRow(st, id, TRUE, resetSelection)

handleRowClick(st, id, shiftKey, ctrlKey, metaKey) ==
  IF disableSelectionOnClick THEN st
  ELSE LET hasCtrlKey == metaKey \/ ctrlKey
       IN IF shiftKey /\ (canHaveMultipleSelection \/ checkboxSelection)
          THEN expandRowRangeSelection(st, id)
          ELSE LET isMultipleSelectionDisabled == ~checkboxSelection /\ ~hasCtrlKey
                   resetSelection == ~canHaveMultipleSelection \/ isMultipleSelectionDisabled
               IN IF resetSelection
                  THEN selectRow(st, id,
                         IF hasCtrlKey \/ checkboxSelection
                         THEN ~isRowSelected(st, id) ELSE TRUE,
                         TRUE)
                  ELSE selectRow(st, id, ~isRowSelected(st, id), FALSE)

\* handleRowSelectionCheckboxChange that toggles the row instead of setting the value
handleRowSelectionCheckboxChangeToggling(st, id, value, shiftKey) ==
  IF shiftKey THEN expandRowRangeSelection(st, id)
  ELSE selectRow(st, id, ~isRowSelected(st, id), FALSE)

handleRowSelectionCheckboxChange(st, id, value, shiftKey) ==
  IF shiftKey THEN expandRowRangeSelection(st, id)
  ELSE selectRow(st, id, value, FALSE)

\* the rows effect without the pruning
rowsChangedEffectWithoutPruning(st, rows) == st

\* useEffect [rowsLookup]: prune the selected ids that have no row
rowsChangedEffect(st, rows) ==
  LET pruned == filter(selectedIdsLookupSelector(st.selection), LAMBDA id : id \in rows)
      hasChanged == \E i \in DOMAIN st.selection : st.selection[i] \notin rows
  IN IF hasChanged THEN setSelectionModel(st, ObjectValues(pruned)) ELSE st

\* the prop effect that adds the prop's ids to the state
propSelectionModelEffectAppending(st, prop) ==
  IF ~propSelectionModel(prop).defined THEN st
  ELSE setSelectionModel(st, st.selection \o propSelectionModel(prop).model)

\* useEffect [propSelectionModel]: the prop overwrites the state
propSelectionModelEffect(st, prop) ==
  IF ~propSelectionModel(prop).defined THEN st
  ELSE setSelectionModel(st, propSelectionModel(prop).model)

\* the isRowSelectable effect that updates only when two or more rows are dropped
isRowSelectableEffectOffByOne(st, pred) ==
  IF pred.defined
  THEN LET newSelection == filter(st.selection, LAMBDA id : ~rejects(pred, id))
       IN IF Len(newSelection) + 1 < Len(st.selection)
          THEN setSelectionModel(st, newSelection)
          ELSE st
  ELSE st

\* useEffect [isRowSelectable]: drop the selected rows the predicate rejects
isRowSelectableEffect(st, pred) ==
  IF pred.defined
  THEN LET newSelection == filter(st.selection, LAMBDA id : ~rejects(pred, id))
       IN IF Len(newSelection) < Len(st.selection)
          THEN setSelectionModel(st, newSelection)
          ELSE st
  ELSE st

----------------------------------------------------------------------------
\* The record of the step.

NoStep ==
  [op |-> "none", id |-> Null, endId |-> Null, model |-> <<>>, prop |-> UndefinedProp,
   isSelected |-> FALSE, resetSelection |-> FALSE,
   shiftKey |-> FALSE, hasCtrlKey |-> FALSE,
   rowsChanged |-> FALSE, propChanged |-> FALSE, propDefined |-> FALSE,
   selectableChanged |-> FALSE,
   prevSelection |-> <<>>, prevLastRowToggled |-> Null]

Step(op) == [NoStep EXCEPT !.op = op, !.prevSelection = selection,
                           !.prevLastRowToggled = lastRowToggled]

\* No step has been taken yet.
Idle == last.op = "none"

\* A callback leaves the rows and the props alone.
Callback(st, step) ==
  /\ selection' = st.selection
  /\ lastRowToggled' = st.lastRowToggled
  /\ last' = step
  /\ UNCHANGED <<rowsLookup, visibleRowIds, checkboxSelection, disableMultipleSelection,
                 disableSelectionOnClick, isRowSelectable>>

----------------------------------------------------------------------------
\* The effects of one commit, in declaration order.  An effect runs when one
\* of its dependencies is a new reference.

runEffects(st, rows, rowsChanged, prop, propChanged, pred, selectableChanged) ==
  LET afterRows == IF rowsChanged THEN rowsChangedEffect(st, rows) ELSE st
      afterProp == IF propChanged THEN propSelectionModelEffect(afterRows, prop) ELSE afterRows
  IN IF selectableChanged THEN isRowSelectableEffect(afterProp, pred) ELSE afterProp

\* The states of a running grid.
Init ==
  /\ rowsLookup \in SUBSET GridRowId
  /\ visibleRowIds \in Orderings(rowsLookup)
  /\ checkboxSelection \in BOOLEAN
  /\ disableMultipleSelection \in BOOLEAN
  /\ disableSelectionOnClick \in BOOLEAN
  /\ isRowSelectable \in RowSelectableProps
  /\ lastRowToggled \in GridRowId \cup {Null}
  /\ selection \in AllOrderings
  /\ last = NoStep

----------------------------------------------------------------------------
\* Calls of the selection API.

SelectRow ==
  /\ Idle
  /\ \E id \in GridRowId, isSelected \in BOOLEAN, resetSelection \in BOOLEAN :
       Callback(selectRow(current, id, isSelected, resetSelection),
                [Step("selectRow") EXCEPT !.id = id, !.isSelected = isSelected,
                                          !.resetSelection = resetSelection])

SelectRows ==
  /\ Idle
  /\ \E ids \in Models, isSelected \in BOOLEAN, resetSelection \in BOOLEAN :
       Callback(selectRows(current, ids, isSelected, resetSelection),
                [Step("selectRows") EXCEPT !.model = ids, !.isSelected = isSelected,
                                           !.resetSelection = resetSelection])

SelectRowRange ==
  /\ Idle
  /\ \E startId \in GridRowId, endId \in GridRowId,
        isSelected \in BOOLEAN, resetSelection \in BOOLEAN :
       Callback(selectRowRange(current, startId, endId, isSelected, resetSelection),
                [Step("selectRowRange") EXCEPT !.id = startId, !.endId = endId,
                                               !.isSelected = isSelected,
                                               !.resetSelection = resetSelection])

SetSelectionModel ==
  /\ Idle
  /\ \E model \in Models :
       Callback(setSelectionModel(current, model),
                [Step("setSelectionModel") EXCEPT !.model = model])

\* Events of the grid: they come from the rows on screen.

RowClick ==
  /\ Idle
  /\ \E id \in Range(visibleRowIds), shiftKey \in BOOLEAN, ctrlKey \in BOOLEAN, metaKey \in BOOLEAN :
       Callback(handleRowClick(current, id, shiftKey, ctrlKey, metaKey),
                [Step("rowClick") EXCEPT !.id = id, !.shiftKey = shiftKey,
                                         !.hasCtrlKey = (metaKey \/ ctrlKey)])

RowSelectionCheckboxChange ==
  /\ Idle
  /\ \E id \in Range(visibleRowIds), value \in BOOLEAN, shiftKey \in BOOLEAN :
       Callback(handleRowSelectionCheckboxChange(current, id, value, shiftKey),
                [Step("rowSelectionCheckboxChange") EXCEPT !.id = id, !.isSelected = value,
                                                           !.shiftKey = shiftKey])

----------------------------------------------------------------------------
\* Commits: the host renders the grid with new rows or new props, and the
\* effects whose dependencies are new references run.  prop is
\* props.selectionModel of the render and propChanged says whether the
\* memoized propSelectionModel is a new reference; a predicate is a function,
\* and selectableReference says whether the host passed a new one.

Commit(rows, visible, rowsReference, prop, propChanged, pred, selectableReference) ==
  LET rowsChanged == rows # rowsLookup \/ rowsReference
      selectableChanged == pred # isRowSelectable \/ (pred.defined /\ selectableReference)
      st == runEffects(current, rows, rowsChanged, prop, propChanged, pred, selectableChanged)
  IN /\ rowsLookup' = rows
     /\ visibleRowIds' = visible
     /\ isRowSelectable' = pred
     /\ selection' = st.selection
     /\ lastRowToggled' = st.lastRowToggled
     /\ last' = [Step("commit") EXCEPT !.rowsChanged = rowsChanged,
                                       !.propChanged = propChanged,
                                       !.propDefined = propSelectionModel(prop).defined,
                                       !.model = propSelectionModel(prop).model,
                                       !.prop = prop,
                                       !.selectableChanged = selectableChanged]
     /\ UNCHANGED <<checkboxSelection, disableMultipleSelection, disableSelectionOnClick>>

Unchanged == UndefinedProp

\* The host passes new rows: the rows lookup is a new object.
RowsChange ==
  /\ Idle
  /\ \E rows \in SUBSET GridRowId :
       \E visible \in Orderings(rows) :
         Commit(rows, visible, TRUE, Unchanged, FALSE, isRowSelectable, FALSE)

\* The filter or the sort changes the visible rows; the rows lookup is the same object.
VisibleRowsChange ==
  /\ Idle
  /\ \E visible \in Orderings(rowsLookup) :
       Commit(rowsLookup, visible, FALSE, Unchanged, FALSE, isRowSelectable, FALSE)

SelectionModelPropChange ==
  /\ Idle
  /\ \E prop \in SelectionModelProps :
       Commit(rowsLookup, visibleRowIds, FALSE, prop, TRUE, isRowSelectable, FALSE)

IsRowSelectablePropChange ==
  /\ Idle
  /\ \E pred \in RowSelectableProps, selectableReference \in BOOLEAN :
       Commit(rowsLookup, visibleRowIds, FALSE, Unchanged, FALSE, pred, selectableReference)

\* A selected row is removed and the selection model prop changes in the same render.
RowsChangeWithSelectionModelProp ==
  /\ Idle
  /\ \E removed \in rowsLookup \cap Range(selection), prop \in SelectionModelProps :
       Commit(rowsLookup \ {removed}, filter(visibleRowIds, LAMBDA id : id # removed), TRUE,
              prop, TRUE, isRowSelectable, FALSE)

\* The selection model prop changes in the same render as the predicate, which
\* now rejects one of the prop's rows.
SelectionModelPropChangeWithIsRowSelectable ==
  /\ Idle
  /\ \E prop \in SelectionModelProps :
       \E rejected \in Range(propSelectionModel(prop).model) :
         Commit(rowsLookup, visibleRowIds, FALSE, prop, TRUE,
                [defined |-> TRUE, accepts |-> GridRowId \ {rejected}], TRUE)

\* The flags change: no effect depends on them.
FlagsChange ==
  \E checkbox \in BOOLEAN, disableMultiple \in BOOLEAN, disableOnClick \in BOOLEAN :
    /\ Idle
    /\ checkboxSelection' = checkbox
    /\ disableMultipleSelection' = disableMultiple
    /\ disableSelectionOnClick' = disableOnClick
    /\ last' = Step("flags")
    /\ UNCHANGED <<selection, lastRowToggled, rowsLookup, visibleRowIds, isRowSelectable>>

Next ==
  \/ SelectRow
  \/ SelectRows
  \/ SelectRowRange
  \/ SetSelectionModel
  \/ RowClick
  \/ RowSelectionCheckboxChange
  \/ RowsChange
  \/ VisibleRowsChange
  \/ SelectionModelPropChange
  \/ IsRowSelectablePropChange
  \/ RowsChangeWithSelectionModelProp
  \/ SelectionModelPropChangeWithIsRowSelectable
  \/ FlagsChange

Spec == Init /\ [][Next]_vars

----------------------------------------------------------------------------
\* One specification per family of operations.  A family starts from the
\* states that differ in what its operations read.

SpecSelectRow == Init /\ [][SelectRow]_vars

\* selectRowRange reads neither the anchor nor disableSelectionOnClick.
InitSelectRowRange == Init /\ lastRowToggled = Null /\ ~disableSelectionOnClick
SpecSelectRowRange == InitSelectRowRange /\ [][SelectRowRange]_vars

SpecRowClick == Init /\ [][RowClick]_vars

\* The operations that select a range, from a grid whose rows react to clicks.
InitRowRange == Init /\ ~disableSelectionOnClick
NextRowRange ==
  \/ SelectRowRange
  \/ RowClick
  \/ RowSelectionCheckboxChange
SpecRowRange == InitRowRange /\ [][NextRowRange]_vars

\* The two events of a row.
NextRowEvents ==
  \/ RowClick
  \/ RowSelectionCheckboxChange
SpecRowEvents == Init /\ [][NextRowEvents]_vars

\* The callbacks that select and deselect rows, from a grid whose model holds
\* no row the predicate rejects and whose rows react to clicks; the model may
\* repeat an id, as after a selectRows call with a reset.  With
\* checkboxSelection set the hook does not read disableMultipleSelection, and
\* a predicate that accepts every id acts as no predicate: one state of each
\* such pair is a start state.
InitSelectableRows ==
  /\ rowsLookup \in SUBSET GridRowId
  /\ visibleRowIds \in Orderings(rowsLookup)
  /\ checkboxSelection \in BOOLEAN
  /\ disableMultipleSelection \in BOOLEAN
  /\ disableSelectionOnClick \in BOOLEAN
  /\ isRowSelectable \in RowSelectableProps
  /\ lastRowToggled \in GridRowId \cup {Null}
  /\ selection \in AllOrderings \cup Models
  /\ last = NoStep
  /\ \A id \in Range(selection) : ~rejects(isRowSelectable, id)
  /\ ~disableSelectionOnClick
  /\ ~(checkboxSelection /\ disableMultipleSelection)
  /\ ~(isRowSelectable.defined /\ isRowSelectable.accepts = GridRowId)
NextSelect ==
  \/ SelectRow
  \/ SelectRows
  \/ SelectRowRange
  \/ RowClick
  \/ RowSelectionCheckboxChange
SpecSelectableRows == InitSelectableRows /\ [][NextSelect]_vars

\* The operations that keep the ids of the model distinct, from a grid whose
\* rows react to clicks; start states the hook cannot tell apart are taken
\* once, as above.
InitDistinctIds ==
  /\ Init
  /\ ~disableSelectionOnClick
  /\ ~(checkboxSelection /\ disableMultipleSelection)
  /\ ~(isRowSelectable.defined /\ isRowSelectable.accepts = GridRowId)
NextDistinctIds ==
  \/ SelectRow
  \/ SelectRowRange
  \/ RowClick
  \/ RowSelectionCheckboxChange
  \/ RowsChange
  \/ IsRowSelectablePropChange
SpecDistinctIds == InitDistinctIds /\ [][NextDistinctIds]_vars

SpecRowSelectionCheckboxChange == Init /\ [][RowSelectionCheckboxChange]_vars

\* The effects read neither the anchor nor the flags.
InitCommit ==
  /\ Init
  /\ lastRowToggled = Null
  /\ ~checkboxSelection /\ ~disableMultipleSelection /\ ~disableSelectionOnClick
NextCommit ==
  \/ RowsChange
  \/ VisibleRowsChange
  \/ SelectionModelPropChange
  \/ IsRowSelectablePropChange
  \/ RowsChangeWithSelectionModelProp
  \/ SelectionModelPropChangeWithIsRowSelectable
SpecCommit == InitCommit /\ [][NextCommit]_vars

\* Every operation, from a grid whose selected ids and anchor are ids of
\* known rows and whose rows react to clicks.  With checkboxSelection set the
\* hook does not read disableMultipleSelection (lines 62 and 210), and a
\* predicate that accepts every id acts as no predicate: one state of each
\* such pair is a start state.
InitKnownRows ==
  /\ Init
  /\ Range(selection) \subseteq rowsLookup
  /\ lastRowToggled \in rowsLookup \cup {Null}
  /\ ~disableSelectionOnClick
  /\ ~(checkboxSelection /\ disableMultipleSelection)
  /\ ~(isRowSelectable.defined /\ isRowSelectable.accepts = GridRowId)
\* Only the two row events read the anchor (through expandRowRangeSelection);
\* the other operations at most write it, so they are taken from the states
\* without an anchor.
NextKnownRows ==
  \/ RowClick
  \/ RowSelectionCheckboxChange
  \/ /\ lastRowToggled = Null
     /\ \/ SelectRow
        \/ SelectRows
        \/ SelectRowRange
        \/ SetSelectionModel
        \/ RowsChange
        \/ VisibleRowsChange
        \/ SelectionModelPropChange
        \/ IsRowSelectablePropChange
        \/ RowsChangeWithSelectionModelProp
        \/ SelectionModelPropChangeWithIsRowSelectable
        \/ FlagsChange
SpecKnownRows == InitKnownRows /\ [][NextKnownRows]_vars

\* Every operation, from a grid in single selection mode with at most one row selected.
InitSingleSelection ==
  Init /\ disableMultipleSelection /\ ~checkboxSelection /\ Len(selection) <= 1
SpecSingleSelection == InitSingleSelection /\ [][Next]_vars

\* selectRows reads the model, the predicate and the two selection flags; the
\* model may be any array a caller installed, repetitions included.
InitSelectRows ==
  /\ rowsLookup = GridRowId
  /\ visibleRowIds \in Orderings(GridRowId)
  /\ Len(visibleRowIds) = Cardinality(GridRowId)
  /\ checkboxSelection \in BOOLEAN
  /\ disableMultipleSelection \in BOOLEAN
  /\ disableSelectionOnClick = FALSE
  /\ isRowSelectable \in RowSelectableProps
  /\ lastRowToggled = Null
  /\ selection \in AllOrderings \cup Models
  /\ last = NoStep
SpecSelectRows == InitSelectRows /\ [][SelectRows]_vars

----------------------------------------------------------------------------
\* Properties.

Selected == Range(selection)
PrevSelected == Range(last.prevSelection)
prev == HookState(last.prevSelection, last.prevLastRowToggled)

SingleSelection == disableMultipleSelection /\ ~checkboxSelection
AllRowsSelectable == \A id \in rowsLookup : ~rejects(isRowSelectable, id)

\* The 1-based position of a visible row, and the visible rows from one row to another.
position(id) == CHOOSE i \in DOMAIN visibleRowIds : visibleRowIds[i] = id
visibleSpan(a, b) ==
  SubSeq(visibleRowIds, Min(position(a), position(b)), Max(position(a), position(b)))

\* The step handed the hook only ids of rows of the row set.
HandsOnlyKnownIds ==
  /\ last.op = "selectRow" => last.id \in rowsLookup
  /\ last.op \in {"selectRows", "setSelectionModel"} => Range(last.model) \subseteq rowsLookup
  /\ (last.op = "commit" /\ last.propChanged /\ last.propDefined)
       => Range(last.model) \subseteq rowsLookup

\* The step installed an array of two or more row ids as the model.
InstallsSeveral ==
  /\ \/ last.op = "setSelectionModel"
     \/ last.op = "commit" /\ last.propChanged /\ last.propDefined
  /\ Cardinality(Range(last.model)) >= 2

\* C1 as stated: in every reachable state every id of the selection model is
\* an id of the known row set.
C1Original == Selected \subseteq rowsLookup

\* C1, amended: from a model of known ids, a step that hands the hook only ids
\* of known rows leaves every id of the selection model an id of the known row
\* set; a row-set change prunes the ids of removed rows.
C1Theorem == HandsOnlyKnownIds => Selected \subseteq rowsLookup

C1Witness ==
  /\ last.op = "commit" /\ last.rowsChanged
  /\ ~(PrevSelected \subseteq rowsLookup)
  /\ selection # <<>>
  /\ Selected \subseteq rowsLookup

\* C2 as stated: in every reachable state, with disableMultipleSelection set
\* and checkboxSelection off, the selection model holds at most one id.
C2Original == SingleSelection => Cardinality(Selected) <= 1

\* C2, amended: in single selection mode, from a model of at most one id, every
\* step other than a setSelectionModel call or a selection-model prop change
\* that carries two or more row ids leaves at most one row id in the model.
C2Theorem == (SingleSelection /\ ~InstallsSeveral) => Cardinality(Selected) <= 1

C2Witness ==
  /\ SingleSelection
  /\ last.op = "selectRows" /\ last.isSelected
  /\ Cardinality({id \in Range(last.model) : ~rejects(isRowSelectable, id)}) = 2
  /\ selection = last.prevSelection
  /\ Len(selection) = 1

\* The number of ids selectRow(id, isSelected, false) computes for the new model.
newSelectionLength ==
  Cardinality(PrevSelected \ {last.id}) + (IF last.isSelected THEN 1 ELSE 0)

\* C3 as stated: after selectRow(r, isSelected, false), isRowSelected(r) is
\* isSelected, whatever the prior state, the flags and the predicate.
C3Original ==
  (last.op = "selectRow" /\ ~last.resetSelection /\ last.id \in rowsLookup)
    => (isRowSelected(current, last.id) <=> last.isSelected)

\* C3, amended: after selectRow(r, isSelected, false) on a row r the predicate
\* accepts, isRowSelected(r) is isSelected when several rows may be selected
\* or the new model holds fewer than two ids.
C3Theorem ==
  (/\ last.op = "selectRow" /\ ~last.resetSelection
   /\ ~rejects(isRowSelectable, last.id)
   /\ (canHaveMultipleSelection \/ newSelectionLength < 2))
    => (isRowSelected(current, last.id) <=> last.isSelected)

C3Witness ==
  /\ last.op = "selectRow" /\ ~last.resetSelection /\ last.isSelected
  /\ last.id \in rowsLookup /\ PrevSelected \subseteq rowsLookup
  /\ isRowSelectable.defined
  /\ last.prevSelection # <<>>
  /\ ~isRowSelected(prev, last.id)
  /\ isRowSelected(current, last.id)

\* C4: in single selection mode, selectRow(id, true, false) while another row
\* is selected leaves the selection model as it was.
C4Theorem ==
  (/\ last.op = "selectRow" /\ last.isSelected /\ ~last.resetSelection
   /\ SingleSelection
   /\ \E other \in PrevSelected : other # last.id)
    => selection = last.prevSelection

C4Witness ==
  /\ last.op = "selectRow" /\ last.isSelected /\ ~last.resetSelection
  /\ last.id \in rowsLookup /\ PrevSelected \subseteq rowsLookup
  /\ SingleSelection
  /\ ~rejects(isRowSelectable, last.id)
  /\ \E other \in PrevSelected : other # last.id
  /\ selection = last.prevSelection
  /\ lastRowToggled = last.id

C6Theorem ==
  (/\ last.op = "commit" /\ last.selectableChanged
   /\ ~last.rowsChanged /\ ~last.propChanged)
    => selection = filter(last.prevSelection, LAMBDA id : ~rejects(isRowSelectable, id))

C6Witness ==
  /\ last.op = "commit" /\ last.selectableChanged
  /\ PrevSelected \subseteq rowsLookup
  /\ ~last.rowsChanged /\ ~last.propChanged
  /\ Len(selection) = 2
  /\ Len(last.prevSelection) = 3

\* C7: selectRowRange from A to B and from B to A, applied to the same state,
\* select the same set of rows.
C7Theorem ==
  last.op = "selectRowRange"
    => Selected = Range(selectRowRange(prev, last.endId, last.id, last.isSelected,
                                        last.resetSelection).selection)

C7Witness ==
  /\ last.op = "selectRowRange" /\ last.isSelected
  /\ indexOf(visibleRowIds, last.id) > indexOf(visibleRowIds, last.endId)
  /\ indexOf(visibleRowIds, last.endId) >= 0
  /\ last.prevSelection = <<>>
  /\ Cardinality(Selected) = 3

\* The case of C8: selectRowRange({startId, endId}, true) on an empty model,
\* both ids visible, every row selectable, several rows may be selected.
C8Case ==
  /\ last.op = "selectRowRange" /\ last.isSelected /\ ~last.resetSelection
  /\ last.prevSelection = <<>>
  /\ canHaveMultipleSelection
  /\ AllRowsSelectable
  /\ includes(visibleRowIds, last.id)
  /\ includes(visibleRowIds, last.endId)

\* Number ids in ascending order, ahead of the string ids.
numbersFirstAscending(s) ==
  \A i, j \in DOMAIN s :
    i < j => /\ ~(s[i] \in StringIds /\ s[j] \in NumberIds)
             /\ (s[i] \in NumberIds /\ s[j] \in NumberIds) => s[i][2] < s[j][2]

C9Theorem ==
  (/\ last.op = "rowClick" /\ ~last.shiftKey /\ ~last.hasCtrlKey
   /\ ~checkboxSelection /\ ~disableSelectionOnClick
   /\ ~rejects(isRowSelectable, last.id))
    => selection = <<last.id>>

C9Witness ==
  /\ last.op = "rowClick" /\ ~last.shiftKey /\ ~last.hasCtrlKey
  /\ ~checkboxSelection /\ ~disableSelectionOnClick /\ disableMultipleSelection
  /\ Len(last.prevSelection) = 1
  /\ ~isRowSelected(prev, last.id)
  /\ selection = <<last.id>>

\* The case of C10: a shift-click on an unselected row while the anchor is a
\* visible row, every row selectable, several rows may be selected.
C10Case ==
  /\ last.op = "rowClick" /\ last.shiftKey
  /\ canHaveMultipleSelection /\ ~disableSelectionOnClick
  /\ AllRowsSelectable
  /\ ~isRowSelected(prev, last.id)
  /\ includes(visibleRowIds, last.prevLastRowToggled)

\* C10: the shift-click selects the rows from the anchor to the clicked row,
\* keeps the rows selected before and no others, and moves the anchor to the
\* clicked row.
C10Theorem ==
  C10Case =>
    /\ Selected = PrevSelected \cup Range(visibleSpan(last.prevLastRowToggled, last.id))
    /\ lastRowToggled = last.id

C10Witness ==
  /\ C10Case
  /\ last.prevSelection = <<>>
  /\ position(last.prevLastRowToggled) = 1
  /\ position(last.id) = 3
  /\ Cardinality(Selected) = 3

\* The reference result of selectRows(ids, isSelected, resetSelection): the ids
\* the predicate accepts, and the candidate set of selected ids.
acceptedIds == {id \in Range(last.model) : ~rejects(isRowSelectable, id)}
candidate ==
  IF last.resetSelection
  THEN IF last.isSelected THEN acceptedIds ELSE {}
  ELSE IF last.isSelected THEN PrevSelected \cup acceptedIds ELSE PrevSelected \ acceptedIds

\* The number of entries of the array selectRows computes: on a reset that
\* selects, the accepted entries of ids with their repetitions.
candidateEntries ==
  IF last.resetSelection /\ last.isSelected
  THEN Len(filter(last.model, LAMBDA id : ~rejects(isRowSelectable, id)))
  ELSE Cardinality(candidate)

\* C11 as stated: selectRows leaves the model unchanged when the candidate
\* holds two or more ids in single selection mode, and otherwise leaves the
\* candidate as the model's set of ids.
C11Original ==
  last.op = "selectRows"
    => IF Cardinality(candidate) >= 2 /\ SingleSelection
       THEN selection = last.prevSelection
       ELSE Selected = candidate

\* C11, amended: selectRows leaves the model unchanged when the array it
\* computes has two or more entries in single selection mode (on a reset that
\* selects, an id given twice counts twice), and otherwise leaves the candidate
\* as the model's set of ids.
C11Theorem ==
  last.op = "selectRows"
    => IF candidateEntries >= 2 /\ SingleSelection
       THEN selection = last.prevSelection
       ELSE Selected = candidate

C11Witness ==
  /\ last.op = "selectRows" /\ ~last.resetSelection /\ ~last.isSelected
  /\ ~SingleSelection
  /\ isRowSelectable.defined
  /\ Cardinality(acceptedIds) = 1 /\ Cardinality(Range(last.model)) = 2
  /\ Range(last.model) \subseteq PrevSelected
  /\ Cardinality(PrevSelected) = 3
  /\ Selected = candidate

\* The array the prop stands for: a single id is a one-element array.
normalized(prop) == IF prop.kind = "array" THEN prop.ids ELSE <<prop.id>>

\* C12 as stated: after an update that changes the selection-model prop to a
\* defined value the model is that value, an id as a one-element array; an
\* undefined prop leaves the model to the other effects.
C12Original ==
  (last.op = "commit" /\ last.propChanged)
    => IF last.prop.kind = "undefined"
       THEN (~last.rowsChanged /\ ~last.selectableChanged) => selection = last.prevSelection
       ELSE selection = normalized(last.prop)

\* C12, amended: the same, in an update that does not also replace the
\* row-selectability predicate; the predicate's effect runs after the sync
\* and drops the rows of the prop that the new predicate rejects.
C12Theorem ==
  (last.op = "commit" /\ last.propChanged)
    => IF last.prop.kind = "undefined"
       THEN (~last.rowsChanged /\ ~last.selectableChanged) => selection = last.prevSelection
       ELSE /\ ~last.selectableChanged => selection = normalized(last.prop)
            /\ last.selectableChanged
                 => selection = filter(normalized(last.prop),
                                       LAMBDA id : ~rejects(isRowSelectable, id))

C12Witness ==
  /\ last.op = "commit" /\ last.propChanged /\ ~last.selectableChanged
  /\ last.prop.kind = "id"
  /\ Len(last.prevSelection) = 2
  /\ last.prop.id \notin PrevSelected
  /\ selection = <<last.prop.id>>

\* C13: with several rows selectable at once and selection on click enabled, a
\* click without shift on a selectable row, in checkbox mode or with ctrl or
\* meta held, flips the row's selected state and leaves every other row's
\* selected state as it was.
C13Theorem ==
  (/\ last.op = "rowClick" /\ ~last.shiftKey
   /\ canHaveMultipleSelection /\ ~disableSelectionOnClick
   /\ (checkboxSelection \/ last.hasCtrlKey)
   /\ ~rejects(isRowSelectable, last.id))
    => /\ isRowSelected(current, last.id) <=> ~isRowSelected(prev, last.id)
       /\ Selected \ {last.id} = PrevSelected \ {last.id}

C13Witness ==
  /\ last.op = "rowClick" /\ ~last.shiftKey /\ last.hasCtrlKey
  /\ ~checkboxSelection /\ ~disableMultipleSelection /\ ~disableSelectionOnClick
  /\ isRowSelected(prev, last.id)
  /\ Len(last.prevSelection) = 2
  /\ Len(selection) = 1
  /\ ~isRowSelected(current, last.id)

\* C14: in checkbox mode a checkbox change without shift that carries the
\* value v for a selectable row leaves the row selected exactly when v is
\* true and every other row's selected state as it was, whatever
\* disableSelectionOnClick and disableMultipleSelection are.
C14Theorem ==
  (/\ last.op = "rowSelectionCheckboxChange" /\ ~last.shiftKey
   /\ checkboxSelection
   /\ ~rejects(isRowSelectable, last.id))
    => /\ isRowSelected(current, last.id) <=> last.isSelected
       /\ Selected \ {last.id} = PrevSelected \ {last.id}

C14Witness ==
  /\ last.op = "rowSelectionCheckboxChange" /\ ~last.shiftKey /\ last.isSelected
  /\ checkboxSelection /\ disableSelectionOnClick /\ disableMultipleSelection
  /\ Len(last.prevSelection) = 1
  /\ ~isRowSelected(prev, last.id)
  /\ Len(selection) = 2
  /\ isRowSelected(current, last.id)

\* The step was a shift-click or a shift checkbox change that expanded a range,
\* and the range it handed to selectRowRange.
Expanded ==
  \/ /\ last.op = "rowClick" /\ last.shiftKey
     /\ ~disableSelectionOnClick
     /\ (canHaveMultipleSelection \/ checkboxSelection)
  \/ last.op = "rowSelectionCheckboxChange" /\ last.shiftKey
range == expandedRange(prev, last.id)

\* C15: selectRowRange with a startId or an endId that has no row, the
\* undefined id of a contraction at the edge of the visible rows included,
\* leaves the selection model as it was and puts no undefined id into it.
C15Theorem ==
  /\ (/\ last.op = "selectRowRange"
      /\ (last.id \notin rowsLookup \/ last.endId \notin rowsLookup))
       => selection = last.prevSelection
  /\ (/\ Expanded
      /\ (range.startId \notin rowsLookup \/ range.endId \notin rowsLookup))
       => selection = last.prevSelection
  /\ Undefined \notin Selected

C15Witness ==
  /\ Expanded
  /\ range.startId \in rowsLookup
  /\ range.endId = Undefined
  /\ Len(visibleRowIds) = 3
  /\ Len(last.prevSelection) = 2
  /\ selection = last.prevSelection

\* A click on a row or on its checkbox with shift held.
ShiftClick == last.op \in {"rowClick", "rowSelectionCheckboxChange"} /\ last.shiftKey

\* The case of C16: a shift-click on a selected row while the anchor is another
\* visible row, every row selectable, several rows may be selected.
C16Case ==
  /\ ShiftClick
  /\ canHaveMultipleSelection
  /\ AllRowsSelectable
  /\ isRowSelected(prev, last.id)
  /\ last.prevLastRowToggled # last.id
  /\ includes(visibleRowIds, last.prevLastRowToggled)

\* The visible row next to the clicked row on the anchor's side.
adjacent ==
  IF position(last.prevLastRowToggled) > position(last.id)
  THEN visibleRowIds[position(last.id) + 1]
  ELSE visibleRowIds[position(last.id) - 1]

Contracted ==
  /\ Selected = PrevSelected \ Range(visibleSpan(last.prevLastRowToggled, adjacent))
  /\ isRowSelected(current, last.id)
  /\ lastRowToggled = last.id

\* C16 as stated: the shift-click deselects the rows from the anchor to the
\* row next to the clicked row, keeps the clicked row selected and the rows
\* outside the span as they were, and moves the anchor to the clicked row.
C16Original == C16Case => Contracted

\* C16, amended: the same, for a shift-click on the row's checkbox and for a
\* shift-click on the row when selection on click is enabled.
C16Theorem ==
  (C16Case /\ (last.op = "rowClick" => ~disableSelectionOnClick)) => Contracted

C16Witness ==
  /\ C16Case
  /\ last.op = "rowClick" /\ ~disableSelectionOnClick
  /\ position(last.prevLastRowToggled) = 1
  /\ position(last.id) = 3
  /\ Cardinality(PrevSelected) = 3
  /\ selection = <<last.id>>

\* C17: with a fixed predicate, from a model that holds no row the predicate
\* rejects, no selectRow, selectRows or selectRowRange call, row click or
\* checkbox change puts a row the predicate rejects into the model.
C17Theorem == \A id \in Selected : ~rejects(isRowSelectable, id)

C17Witness ==
  /\ last.op = "selectRows" /\ last.isSelected /\ ~last.resetSelection
  /\ \E id \in Range(last.model) : rejects(isRowSelectable, id)
  /\ \E id \in Range(last.model) : id \in Selected \ PrevSelected
  /\ PrevSelected # {}

\* The anchor of the expansion: the last row toggled, the clicked row when no
\* row was toggled yet.
anchor == IF last.prevLastRowToggled # Null THEN last.prevLastRowToggled ELSE last.id

\* The rows whose selected state the step changed.
changed == (Selected \ PrevSelected) \cup (PrevSelected \ Selected)

\* The visible rows from the anchor to the clicked row; the clicked row alone
\* when the anchor is not a visible row.
anchorSpan ==
  IF includes(visibleRowIds, anchor)
  THEN Range(visibleSpan(anchor, last.id))
  ELSE {last.id}

\* C18: a shift-click that expands a range changes the selected state only of
\* visible rows from the anchor to the clicked row; when the anchor is the
\* clicked row, of no other row than the clicked one.
C18Original == Expanded => changed \subseteq anchorSpan

\* C19: with several rows selectable at once and selection on click enabled, a
\* shift-click on an unselected, selectable visible row leaves that row
\* selected, whatever the anchor: no row, a row removed from the rows, a row
\* that is not visible.
C19Original ==
  (/\ last.op = "rowClick" /\ last.shiftKey
   /\ canHaveMultipleSelection /\ ~disableSelectionOnClick
   /\ ~isRowSelected(prev, last.id)
   /\ ~rejects(isRowSelectable, last.id))
    => isRowSelected(current, last.id)

\* C20: from a model of distinct ids (the empty model is one), no selectRow or
\* selectRowRange call, row click, checkbox change, row-set change or predicate
\* change leaves an id more than once in the model.
C20Theorem == \A i, j \in DOMAIN selection : selection[i] = selection[j] => i = j

C20Witness ==
  /\ last.op = "selectRow" /\ last.isSelected /\ ~last.resetSelection
  /\ canHaveMultipleSelection
  /\ ~rejects(isRowSelectable, last.id)
  /\ isRowSelected(prev, last.id)
  /\ Len(last.prevSelection) = 2
  /\ Len(selection) = 2
  /\ selection # last.prevSelection

====
